---- MODULE Spec2Model ----
(***************************************************************************)
(* WorkerBox (src/src/index.ts): addWorker builds a typed channel between  *)
(* the main thread (initiator) and one Web Worker.  Both sides keep a      *)
(* messageQueue and a pendingReceivers list and offer send / receive /     *)
(* poll / subscribe / stop; the initiator also has start(data).            *)
(*                                                                         *)
(* Main-thread state keeps the names of the source.  The copies of the     *)
(* same names that live inside workerBootstrap carry the prefix w_.        *)
(* The two event loops run concurrently; one TLA+ step is one synchronous  *)
(* call, one timer callback or one dispatched message event (the listener  *)
(* of the library followed by every subscribe handler on the same target). *)
(*                                                                         *)
(* Platform behaviour the model relies on: messages of one direction are   *)
(* dispatched in post order; Worker.terminate() discards what is in flight *)
(* in both directions; close() inside the worker stops its event loop but  *)
(* lets what it has posted arrive; a Worker constructed from a revoked     *)
(* object URL is a Worker object whose script never loads.                 *)
(*                                                                         *)
(* The two endpoints share no state, each sees of its peer only the        *)
(* messages the peer posts (and, for the worker, terminate()).  In every   *)
(* behaviour the user code of one side, `focus`, calls the whole API while *)
(* the user code of the other side only starts, stops and posts.           *)
(*                                                                         *)
(* Specifications: Spec (the two endpoints, one subscription each side),   *)
(* SpecSubscribers (several subscriptions), SpecFalsy (falsy payloads),    *)
(* SpecPing (the ping/pong exchange of the README, with fairness),         *)
(* SpecRegistry (addWorker's memoization by encoded source text) and       *)
(* SpecTimers (receive, poll and the timers, with timers that fire).       *)
(***************************************************************************)
EXTENDS Integers, Sequences, FiniteSets, TLC

\* ---- bounds of the model ------------------------------------------------
MaxSpawn == 2
MaxRecv == 2
MaxSend == 2
MaxOwnSend == 1
MaxSub == 1
MaxSubMany == 2

\* ---- values -------------------------------------------------------------
Null == 0
Undefined == "undefined"
Data == {"d1", "d2"}
Payload == {"a", "b"}
Side == {"main", "worker"}
RecvIds == 1..MaxRecv
SubIds == 1..MaxSubMany
StartupReceive == 0

VARIABLES
    worker,             \* `worker`: Null or the Worker object now held
    spawned,            \* number of Worker objects constructed so far
    urlRevoked,         \* URL.revokeObjectURL(workerUrl) has run
    messageQueue,       \* initiator-side messageQueue
    pendingReceivers,   \* initiator-side pendingReceivers (receive call ids)
    promises,           \* state of the promise of each initiator receive call
    timers,             \* timer of each initiator receive call
    subs,               \* initiator-side subscribe handlers
    toWorker,           \* messages posted to the current Worker, not yet dispatched
    toMain,             \* messages posted by the worker, not yet dispatched
    w_state,            \* worker context: none / failed / init / running / closed
    w_data,             \* the `data` field handed to workerFn
    w_messageQueue,     \* messageQueue inside workerBootstrap
    w_pendingReceivers, \* pendingReceivers inside workerBootstrap
    w_promises,         \* promises of the worker-side receive calls
    w_timers,           \* timers of the worker-side receive calls
    w_subs,             \* worker-side subscribe handlers
    ret,                \* the last API call and how it completed
    focus,              \* the side whose user code exercises the whole API
    hist,               \* history: starts, posts and hand-outs of this epoch
    globalThis,         \* the properties addWorker has set on globalThis, by key
    calls,              \* the addWorker calls made so far and their outcomes
    platform            \* the host: "browser" (no Buffer) or "node" (Buffer)

vars == <<worker, spawned, urlRevoked, messageQueue, pendingReceivers, promises,
          timers, subs, toWorker, toMain, w_state, w_data, w_messageQueue,
          w_pendingReceivers, w_promises, w_timers, w_subs, ret, focus, hist,
          globalThis, calls, platform>>

registryVars == <<globalThis, calls, platform>>

mainVars == <<registryVars, focus, worker, spawned, urlRevoked, messageQueue, pendingReceivers,
              promises, timers, subs>>
workerVars == <<w_state, w_data, w_messageQueue, w_pendingReceivers, w_promises,
                w_timers, w_subs>>

\* ---- helpers ------------------------------------------------------------
\* Array.prototype.indexOf over a list of resolvers: 0 stands for -1.
indexOf(list, r) ==
    IF \E i \in 1..Len(list) : list[i] = r
    THEN CHOOSE i \in 1..Len(list) : list[i] = r /\ \A j \in 1..(i - 1) : list[j] # r
    ELSE 0

\* Array.prototype.splice(index, 1) at a 1-based index (spliceNothing: a
\* splice that removes nothing).
spliceNothing(list, i) == list

\* (spliceRest: splice(index) without a delete count, which removes the rest.)
spliceRest(list, i) == SubSeq(list, 1, i - 1)

splice(list, i) == SubSeq(list, 1, i - 1) \o SubSeq(list, i + 1, Len(list))

\* Array.prototype.push (unshift: the same at the front).
unshift(list, x) == <<x>> \o list

push(list, x) == Append(list, x)

\* Array.prototype.shift on a non-empty array: the element it returns (shift)
\* and the array it leaves (shifted).  pop returns the last element instead.
pop(list) == list[Len(list)]

shift(list) == Head(list)

\* (peeked: a shift that reads the first element and leaves it in the array.)
peeked(list) == list

shifted(list) == Tail(list)

\* A receive call: st is the state of its promise, by says what resolved it
\* ("queue": the synchronous shift, "listener": the resolver, "timer": the
\* timeout callback), val the value it resolved with.  pos, arr and clean record
\* the registration: the length of pendingReceivers after the push, the number of
\* messages dispatched to this endpoint before it, and whether every receiver
\* then pending (this one included) had no timer.
\* dropped: stop() emptied pendingReceivers while the call was in it.
Unused == [st |-> "unused", by |-> "none", val |-> Undefined,
           pos |-> 0, arr |-> 0, clean |-> FALSE, dropped |-> FALSE]
PendingAt(pos, arr, clean) == [st |-> "pending", by |-> "none", val |-> Undefined,
                               pos |-> pos, arr |-> arr, clean |-> clean,
                               dropped |-> FALSE]
Resolved(p, by, v) == [p EXCEPT !.st = "resolved", !.by = by, !.val = v]

\* A subscribe handler: w is the event target it was added to (Null: unused),
\* on whether it is still attached, log the messages its callback was invoked
\* with, from the number of messages dispatched to the endpoint before it.
NoSub == [w |-> Null, on |-> FALSE, log |-> <<>>, from |-> 0, unsub |-> FALSE]

\* One message event on target w: every handler attached to w runs once
\* (dispatchNone: no handler runs).
dispatchNone(ss, w, msg) == ss

dispatch(ss, w, msg) ==
    [s \in SubIds |-> IF ss[s].on /\ ss[s].w = w
                      THEN [ss[s] EXCEPT !.log = Append(@, msg)]
                      ELSE ss[s]]

\* `self`, the event target of the worker-side handlers.
Self == 1

\* target.removeEventListener('message', handler) for the handler of
\* subscription s: it leaves target w's listener list if it is in it.
\* (removeNothing: a removeEventListener that is handed a different function.)
removeNothing(ss, s, w) == ss

removeEventListener(ss, s, w) ==
    [ss EXCEPT ![s].on = IF ss[s].w = w THEN FALSE ELSE @]

\* The last API call: the side and the function called, the argument of a
\* start(data) call, and the value returned ("NotStarted": it threw).
RetArg(side, op, arg, val) == [side |-> side, op |-> op, arg |-> arg, val |-> val]
Ret(side, op, val) == RetArg(side, op, Undefined, val)

\* The next unused receive call id of a side (0 when the bound is reached).
NextId(ps) == IF \E r \in RecvIds : ps[r].st = "unused"
              THEN CHOOSE r \in RecvIds : ps[r].st = "unused"
                                          /\ \A q \in 1..(r - 1) : ps[q].st # "unused"
              ELSE 0

NextSub(ss) == IF \E s \in SubIds : ss[s].w = Null
               THEN CHOOSE s \in SubIds : ss[s].w = Null
                                          /\ \A q \in 1..(s - 1) : ss[q].w # Null
               ELSE 0

\* History of the current epoch (since the last construction of a Worker, or
\* since the last stop()): what was asked and what was handed out.
NoHist == [spawns |-> 0,       \* Worker objects constructed since the last stop()
           inits |-> <<>>,     \* initialization payloads posted since the last stop()
           stops |-> 0,        \* successful stop() calls so far
           mSent |-> <<>>,     \* user messages posted by the initiator to this Worker
           wSent |-> <<>>,     \* messages posted by this worker
           mOut |-> <<>>,      \* messages handed to initiator receive()/poll(), in order
           wOut |-> <<>>,      \* the same on the worker side
           wIn |-> <<>>]       \* every message event dispatched inside this worker

\* A hand-out: to is the receive call id (StartupReceive for the start-up
\* receive of the worker), or PollCall for a poll().
PollCall == 0 - 1
Handed(to, v) == [to |-> to, val |-> v]

\* Messages dispatched so far to the initiator's listener / inside the worker.
Arrived == SubSeq(hist.wSent, 1, Len(hist.wSent) - Len(toMain))
w_Arrived == hist.wIn

\* Whether the user code of a side calls the whole API: the focus side does,
\* and both sides do when the focus is "both".
Drives(side) == focus \in {side, "both"}

\* The user code of the focus side posts at most MaxOwnSend messages, its peer
\* at most MaxSend.
SendBound(side) == IF focus = side THEN MaxOwnSend ELSE MaxSend

\* ---- construction -------------------------------------------------------
\* addWorker (first call for a fingerprint): the state of the closure.
Constructed ==
    /\ worker = Null
    /\ spawned = 0
    /\ urlRevoked = FALSE
    /\ messageQueue = <<>>
    /\ pendingReceivers = <<>>
    /\ promises = [r \in RecvIds |-> Unused]
    /\ timers = [r \in RecvIds |-> "none"]
    /\ subs = [s \in SubIds |-> NoSub]
    /\ toWorker = <<>>
    /\ toMain = <<>>
    /\ w_state = "none"
    /\ w_data = Undefined
    /\ w_messageQueue = <<>>
    /\ w_pendingReceivers = <<>>
    /\ w_promises = [r \in RecvIds |-> Unused]
    /\ w_timers = [r \in RecvIds |-> "none"]
    /\ w_subs = [s \in SubIds |-> NoSub]
    /\ ret = Ret("main", "addWorker", "api")
    /\ hist = NoHist
    /\ globalThis = <<>>
    /\ calls = <<>>

Init == Constructed /\ focus \in Side /\ platform = "browser"

\* The worker context right after workerBootstrap has run: empty queue, the
\* start-up receive() registered as the only pending receiver, no subscription.
workerBootstrap ==
    /\ w_state' = "init"
    /\ w_data' = Undefined
    /\ w_messageQueue' = <<>>
    /\ w_pendingReceivers' = <<StartupReceive>>
    /\ w_promises' = [r \in RecvIds |-> Unused]
    /\ w_timers' = [r \in RecvIds |-> "none"]
    /\ w_subs' = [s \in SubIds |-> NoSub]

\* A worker context that is gone (terminated, or its script never loaded).
workerGone(st) ==
    /\ w_state' = st
    /\ w_data' = Undefined
    /\ w_messageQueue' = <<>>
    /\ w_pendingReceivers' = <<>>
    /\ w_promises' = [r \in RecvIds |-> Unused]
    /\ w_timers' = [r \in RecvIds |-> "none"]
    /\ w_subs' = [s \in SubIds |-> NoSub]

\* ---- initiator side -----------------------------------------------------
\* start(data): no-op when a Worker is held; else construct the Worker, attach
\* the message listener and post data.  A Worker built from a revoked object
\* URL is an object whose script never loads.  (startSpawnsAlways: a start
\* without its `worker !== null` guard.)
startSpawnsAlways == TRUE

startSpawns == worker = Null

\* What start posts to the new Worker: worker.postMessage(data).  (postNothing:
\* a start that forgets to post the payload.)
postNothing(d) == <<>>

postData(d) == <<d>>

start(d) ==
    /\ IF ~startSpawns
       THEN UNCHANGED <<worker, spawned, toWorker, toMain, workerVars, hist>>
       ELSE /\ spawned < MaxSpawn
            /\ spawned' = spawned + 1
            /\ worker' = spawned + 1
            /\ toWorker' = postData(d)
            /\ toMain' = <<>>
            /\ IF urlRevoked THEN workerGone("failed") ELSE workerBootstrap
            /\ hist' = [hist EXCEPT !.spawns = @ + 1,
                                    !.inits = Append(@, d), !.mSent = <<>>,
                                    !.wSent = <<>>, !.mOut = <<>>, !.wOut = <<>>,
                                    !.wIn = <<>>]
    /\ ret' = RetArg("main", "start", d, "void")
    /\ UNCHANGED <<registryVars, focus, urlRevoked, messageQueue, pendingReceivers,
                   promises, timers,
                   subs>>

\* send(message): silently returns when no Worker is held, else posts.
\* (sendUnguarded: a send without its `worker === null` return.)
sendUnguarded == FALSE

sendGuard == worker = Null

send(m) ==
    /\ Len(hist.mSent) < SendBound("main")
    /\ IF sendGuard
       THEN UNCHANGED <<toWorker, hist>>
       ELSE /\ toWorker' = Append(toWorker, m)
            /\ hist' = [hist EXCEPT !.mSent = Append(@, m)]
    /\ ret' = Ret("main", "send", "void")
    /\ UNCHANGED <<mainVars, toMain, workerVars>>

\* receive(timeoutMs): takes the oldest queued message, or registers a resolver
\* (and arms a timer when timeoutMs is a number).  It has no guard on `worker`.
\* The resolver's `if (timer !== null) clearTimeout(timer)`.  (keepTimeout: a
\* resolver that leaves its timer armed.)
keepTimeout(t) == t

clearTimeout(t) == IF t = "armed" THEN "cleared" ELSE t

\* (neverQueued: a receive that skips its `messageQueue.length > 0` test.)
neverQueued(q) == FALSE

hasQueued(q) == Len(q) > 0

receive(timed) ==
    LET r == NextId(promises) IN
    /\ Drives("main")
    /\ r # 0
    /\ IF hasQueued(messageQueue)
       THEN /\ promises' = [promises EXCEPT ![r] = Resolved(@, "queue", shift(messageQueue))]
            /\ messageQueue' = shifted(messageQueue)
            /\ hist' = [hist EXCEPT !.mOut = Append(@, Handed(r, shift(messageQueue)))]
            /\ UNCHANGED <<pendingReceivers, timers>>
       ELSE /\ pendingReceivers' = push(pendingReceivers, r)
            /\ promises' = [promises EXCEPT ![r] =
                              PendingAt(Len(pendingReceivers) + 1, Len(Arrived),
                                        ~timed /\ \A i \in 1..Len(pendingReceivers) :
                                                     timers[pendingReceivers[i]] = "none")]
            /\ timers' = [timers EXCEPT ![r] = IF timed THEN "armed" ELSE "none"]
            /\ UNCHANGED <<messageQueue, hist>>
    /\ ret' = Ret("main", "receive", "promise")
    /\ UNCHANGED <<registryVars, focus, worker, spawned, urlRevoked, subs, toWorker,
                   toMain, workerVars>>

\* The setTimeout callback of receive call r: splice the resolver out when it is
\* still listed, then resolve(undefined) whether it was listed or not
\* (timeoutResolvesIfListed: a callback that resolves inside the `if`).
timeoutResolvesIfListed(index) == index > 0

timeoutResolves(index) == TRUE

timeout(r) ==
    /\ timers[r] = "armed"
    /\ LET index == indexOf(pendingReceivers, r) IN
       /\ pendingReceivers' = IF index > 0 THEN splice(pendingReceivers, index)
                              ELSE pendingReceivers
       /\ promises' = [promises EXCEPT ![r] =
                         IF @.st = "pending" /\ timeoutResolves(index)
                         THEN Resolved(@, "timer", Undefined) ELSE @]
    /\ timers' = [timers EXCEPT ![r] = "fired"]
    /\ UNCHANGED <<registryVars, focus, worker, spawned, urlRevoked, messageQueue, subs,
                   toWorker, toMain,
                   workerVars, ret, hist>>

\* poll(): messageQueue.shift(), undefined on an empty queue.  No guard on
\* `worker`.  (pollLast: a poll that returns the newest message.)
pollLast(q) == IF Len(q) > 0 THEN pop(q) ELSE Undefined

pollValue(q) == IF Len(q) > 0 THEN shift(q) ELSE Undefined

poll ==
    /\ Drives("main")
    /\ messageQueue' = IF Len(messageQueue) > 0 THEN shifted(messageQueue) ELSE <<>>
    /\ ret' = Ret("main", "poll", pollValue(messageQueue))
    /\ hist' = IF Len(messageQueue) > 0
               THEN [hist EXCEPT !.mOut = Append(@, Handed(PollCall, pollValue(messageQueue)))]
               ELSE hist
    /\ UNCHANGED <<registryVars, focus, worker, spawned, urlRevoked, pendingReceivers,
                   promises, timers,
                   subs, toWorker, toMain, workerVars>>

\* subscribe(callback): throws when no Worker is held, else adds a handler to
\* the Worker now held.  At most n subscriptions are made.
subscribeWithin(n) ==
    LET s == NextSub(subs) IN
    /\ Drives("main")
    /\ IF worker = Null
       THEN /\ ret' = Ret("main", "subscribe", "NotStarted")
            /\ UNCHANGED subs
       ELSE /\ s # 0 /\ s <= n
            /\ subs' = [subs EXCEPT ![s] = [w |-> worker, on |-> TRUE, log |-> <<>>,
                                           from |-> Len(Arrived), unsub |-> FALSE]]
            /\ ret' = Ret("main", "subscribe", "unsubscribe")
    /\ UNCHANGED <<registryVars, focus, worker, spawned, urlRevoked, messageQueue,
                   pendingReceivers,
                   promises, timers, toWorker, toMain, workerVars, hist>>

subscribe == subscribeWithin(MaxSub)

\* The closure returned by subscribe: throws when no Worker is held, else
\* removes the handler from the Worker now held.
unsubscribe(s) ==
    /\ Drives("main")
    /\ subs[s].w # Null
    /\ IF worker = Null
       THEN /\ ret' = Ret("main", "unsubscribe", "NotStarted")
            /\ UNCHANGED subs
       ELSE /\ subs' = [removeEventListener(subs, s, worker) EXCEPT ![s].unsub = TRUE]
            /\ ret' = Ret("main", "unsubscribe", "void")
    /\ UNCHANGED <<registryVars, focus, worker, spawned, urlRevoked, messageQueue,
                   pendingReceivers,
                   promises, timers, toWorker, toMain, workerVars, hist>>

\* stop(): throws when no Worker is held; else terminates it, forgets it,
\* empties both lists and revokes the object URL.  Timers are left armed.
\* (stopKeeps: a stop that forgets `length = 0`.)
stopKeeps(list) == list

stopClears(list) == <<>>

stop ==
    IF worker = Null
    THEN /\ ret' = Ret("main", "stop", "NotStarted")
         /\ UNCHANGED <<mainVars, toWorker, toMain, workerVars, hist>>
    ELSE /\ worker' = Null
         /\ messageQueue' = stopClears(messageQueue)
         /\ pendingReceivers' = stopClears(pendingReceivers)
         /\ urlRevoked' = TRUE
         /\ toWorker' = <<>>
         /\ toMain' = <<>>
         /\ workerGone("none")
         /\ ret' = Ret("main", "stop", "void")
         /\ hist' = [hist EXCEPT !.spawns = 0, !.inits = <<>>,
                                 !.stops = 1, !.mSent = <<>>, !.wSent = <<>>,
                                 !.mOut = <<>>, !.wOut = <<>>, !.wIn = <<>>]
         /\ promises' = [r \in RecvIds |->
                           IF indexOf(pendingReceivers, r) > 0
                           THEN [promises[r] EXCEPT !.dropped = TRUE]
                           ELSE promises[r]]
         /\ UNCHANGED <<registryVars, focus, spawned, timers, subs>>

\* The message listener attached by start(), followed by every subscribe
\* handler attached to the same Worker: one dispatched message event.
listener ==
    /\ worker # Null
    /\ Len(toMain) > 0
    /\ LET message == Head(toMain) IN
       /\ toMain' = Tail(toMain)
       /\ IF Len(pendingReceivers) > 0
          THEN LET resolver == shift(pendingReceivers) IN
               /\ pendingReceivers' = shifted(pendingReceivers)
               /\ promises' = [promises EXCEPT ![resolver] =
                                 IF @.st = "pending" THEN Resolved(@, "listener", message)
                                 ELSE @]
               /\ timers' = [timers EXCEPT ![resolver] =
                                clearTimeout(@)]
               /\ hist' = [hist EXCEPT !.mOut = Append(@, Handed(resolver, message))]
               /\ UNCHANGED messageQueue
          ELSE /\ messageQueue' = push(messageQueue, message)
               /\ UNCHANGED <<pendingReceivers, promises, timers, hist>>
       /\ subs' = dispatch(subs, worker, message)
    /\ UNCHANGED <<registryVars, focus, worker, spawned, urlRevoked, toWorker, workerVars, ret>>

\* ---- worker side (inside workerBootstrap) ---------------------------------
\* User logic (workerFn) runs once the start-up receive() has resolved.
w_running == w_state = "running"

\* send(message): postMessage to the main thread.
w_send(m) ==
    /\ w_running
    /\ Len(hist.wSent) < SendBound("worker")
    /\ toMain' = Append(toMain, m)
    /\ hist' = [hist EXCEPT !.wSent = Append(@, m)]
    /\ ret' = Ret("worker", "send", "void")
    /\ UNCHANGED <<mainVars, toWorker, workerVars>>

\* receive(timeoutMs) of the worker side.
w_receive(timed) ==
    LET r == NextId(w_promises) IN
    /\ Drives("worker")
    /\ w_running
    /\ r # 0
    /\ IF hasQueued(w_messageQueue)
       THEN /\ w_promises' = [w_promises EXCEPT ![r] =
                                 Resolved(@, "queue", shift(w_messageQueue))]
            /\ w_messageQueue' = shifted(w_messageQueue)
            /\ hist' = [hist EXCEPT !.wOut = Append(@, Handed(r, shift(w_messageQueue)))]
            /\ UNCHANGED <<w_pendingReceivers, w_timers>>
       ELSE /\ w_pendingReceivers' = push(w_pendingReceivers, r)
            /\ w_promises' = [w_promises EXCEPT ![r] =
                                PendingAt(Len(w_pendingReceivers) + 1, Len(w_Arrived),
                                          ~timed /\ \A i \in 1..Len(w_pendingReceivers) :
                                                       w_pendingReceivers[i] # StartupReceive
                                                       => w_timers[w_pendingReceivers[i]] = "none")]
            /\ w_timers' = [w_timers EXCEPT ![r] = IF timed THEN "armed" ELSE "none"]
            /\ UNCHANGED <<w_messageQueue, hist>>
    /\ ret' = Ret("worker", "receive", "promise")
    /\ UNCHANGED <<mainVars, toWorker, toMain, w_state, w_data, w_subs>>

\* The setTimeout callback of worker-side receive call r.
w_timeout(r) ==
    /\ w_running
    /\ w_timers[r] = "armed"
    /\ LET index == indexOf(w_pendingReceivers, r) IN
       /\ w_pendingReceivers' = IF index > 0 THEN splice(w_pendingReceivers, index)
                                ELSE w_pendingReceivers
       /\ w_promises' = [w_promises EXCEPT ![r] =
                           IF @.st = "pending" /\ timeoutResolves(index)
                           THEN Resolved(@, "timer", Undefined) ELSE @]
    /\ w_timers' = [w_timers EXCEPT ![r] = "fired"]
    /\ UNCHANGED <<mainVars, toWorker, toMain, w_state, w_data, w_messageQueue, w_subs,
                   ret, hist>>

\* poll() of the worker side.
w_poll ==
    /\ Drives("worker")
    /\ w_running
    /\ w_messageQueue' = IF Len(w_messageQueue) > 0 THEN shifted(w_messageQueue) ELSE <<>>
    /\ ret' = Ret("worker", "poll", pollValue(w_messageQueue))
    /\ hist' = IF Len(w_messageQueue) > 0
               THEN [hist EXCEPT !.wOut = Append(@, Handed(PollCall, pollValue(w_messageQueue)))]
               ELSE hist
    /\ UNCHANGED <<mainVars, toWorker, toMain, w_state, w_data, w_pendingReceivers,
                   w_promises, w_timers, w_subs>>

\* subscribe(callback) of the worker side: a handler on self.
w_subscribeWithin(n) ==
    LET s == NextSub(w_subs) IN
    /\ Drives("worker")
    /\ w_running
    /\ s # 0 /\ s <= n
    /\ w_subs' = [w_subs EXCEPT ![s] = [w |-> Self, on |-> TRUE, log |-> <<>>,
                                         from |-> Len(w_Arrived), unsub |-> FALSE]]
    /\ ret' = Ret("worker", "subscribe", "unsubscribe")
    /\ UNCHANGED <<mainVars, toWorker, toMain, w_state, w_data, w_messageQueue,
                   w_pendingReceivers, w_promises, w_timers, hist>>

w_subscribe == w_subscribeWithin(MaxSub)

\* The closure returned by the worker-side subscribe.
w_unsubscribe(s) ==
    /\ Drives("worker")
    /\ w_running
    /\ w_subs[s].w # Null
    /\ w_subs' = [removeEventListener(w_subs, s, Self) EXCEPT ![s].unsub = TRUE]
    /\ ret' = Ret("worker", "unsubscribe", "void")
    /\ UNCHANGED <<mainVars, toWorker, toMain, w_state, w_data, w_messageQueue,
                   w_pendingReceivers, w_promises, w_timers, hist>>

\* stop() of the worker side: close().  The context runs no further event;
\* what it has posted stays on its way to the main thread.
w_stop ==
    /\ Drives("worker")
    /\ w_running
    /\ workerGone("closed")
    /\ ret' = Ret("worker", "stop", "void")
    /\ UNCHANGED <<mainVars, toWorker, toMain, hist>>

\* The message listener of workerBootstrap, followed by every subscribe handler
\* on self: one dispatched message event.  Resolving the start-up receive()
\* runs its then-callback, which invokes workerFn with data.
w_listener ==
    /\ w_state \in {"init", "running"}
    /\ Len(toWorker) > 0
    /\ LET msg == Head(toWorker) IN
       /\ toWorker' = Tail(toWorker)
       /\ IF Len(w_pendingReceivers) > 0
          THEN LET resolver == shift(w_pendingReceivers) IN
               /\ w_pendingReceivers' = shifted(w_pendingReceivers)
               /\ IF resolver = StartupReceive
                  THEN /\ w_data' = msg
                       /\ w_state' = "running"
                       /\ UNCHANGED <<w_promises, w_timers>>
                  ELSE /\ w_promises' = [w_promises EXCEPT ![resolver] =
                                            IF @.st = "pending"
                                            THEN Resolved(@, "listener", msg) ELSE @]
                       /\ w_timers' = [w_timers EXCEPT ![resolver] =
                                          clearTimeout(@)]
                       /\ UNCHANGED <<w_data, w_state>>
               /\ hist' = [hist EXCEPT !.wOut = Append(@, Handed(resolver, msg)),
                                       !.wIn = Append(@, msg)]
               /\ UNCHANGED w_messageQueue
          ELSE /\ w_messageQueue' = push(w_messageQueue, msg)
               /\ hist' = [hist EXCEPT !.wIn = Append(@, msg)]
               /\ UNCHANGED <<w_pendingReceivers, w_promises, w_timers, w_data, w_state>>
       /\ w_subs' = dispatch(w_subs, Self, msg)
    /\ UNCHANGED <<mainVars, toMain, ret>>

\* ---- specification --------------------------------------------------------
Next ==
    \/ \E d \in Data : start(d)
    \/ \E m \in Payload : send(m)
    \/ \E t \in BOOLEAN : receive(t)
    \/ \E r \in RecvIds : timeout(r)
    \/ poll
    \/ subscribe
    \/ \E s \in SubIds : unsubscribe(s)
    \/ stop
    \/ listener
    \/ \E m \in Payload : w_send(m)
    \/ \E t \in BOOLEAN : w_receive(t)
    \/ \E r \in RecvIds : w_timeout(r)
    \/ w_poll
    \/ w_subscribe
    \/ \E s \in SubIds : w_unsubscribe(s)
    \/ w_stop
    \/ w_listener

Spec == Init /\ [][Next]_vars

\* ---- lifecycle of the initiator side --------------------------------------
Unstarted == worker = Null /\ spawned = 0
Stopped == worker = Null /\ hist.stops = 1

sendCall == \E m \in Payload : send(m)
receiveCall == \E t \in BOOLEAN : receive(t)

\* C1: after stop() on the initiator side, each of send, receive, poll and
\* subscribe raises NotStarted when called, and so does a second stop().
C1_CallsAfterStopRaise ==
    [][(Stopped /\ (sendCall \/ receiveCall \/ poll \/ subscribe \/ stop))
         => ret'.val = "NotStarted"]_vars

\* C2: before the first start(), each of receive, poll, subscribe and stop fails
\* synchronously with NotStarted, returning no value and registering no receiver.
C2_CallsBeforeStartRaise ==
    [][(Unstarted /\ (receiveCall \/ poll \/ subscribe \/ stop))
         => (ret'.val = "NotStarted" /\ pendingReceivers' = pendingReceivers)]_vars

\* C3: STOPPED is terminal: once stop() has succeeded, no later step constructs
\* a Worker or posts an initialization payload, and `worker` stays null.
C3_StoppedIsTerminal ==
    [][hist.stops = 1
         => (worker' = Null /\ spawned' = spawned /\ toWorker' = <<>>)]_vars

\* C4: start() is idempotent while a Worker is held: a start(d2) call made
\* while a Worker is held constructs nothing and posts nothing, so that since the
\* last stop() exactly one Worker was constructed and exactly one initialization
\* message was posted, carrying the data d1 of the call that constructed it, and
\* everything posted to that Worker is d1 followed by the messages of send().
C4_OneWorker ==
    worker # Null =>
        /\ hist.spawns = 1
        /\ Len(hist.inits) = 1
        /\ hist.wIn \o toWorker = hist.inits \o hist.mSent
        /\ w_state = "running" => w_data = hist.inits[1]

C4_StartIdempotent ==
    [][/\ C4_OneWorker'
       /\ \A d \in Data :
            (worker = Null /\ start(d)) => hist'.inits = <<d>>
       /\ \A d \in Data :
            (worker # Null /\ start(d))
                => UNCHANGED <<worker, spawned, toWorker, toMain, workerVars, hist>>]_vars

C4_Witness ==
    /\ worker # Null
    /\ ret = RetArg("main", "start", "d2", "void")
    /\ hist.inits = <<"d1">>
    /\ w_state = "running"
    /\ w_data = "d1"

\* ---- message routing on one endpoint ----------------------------------------
\* Everything the peer has posted to an endpoint in this epoch, in post order.
SentToMain == hist.wSent
SentToWorker == hist.inits \o hist.mSent

Vals(out) == [i \in 1..Len(out) |-> out[i].val]
OnlyPolls(out) == \A i \in 1..Len(out) : out[i].to = PollCall

\* C5: N receive() calls without timeout registered on an endpoint while its
\* queue is empty, followed by N messages of the peer: the k-th registered
\* receive() resolves with the k-th of these messages (it is resolved as soon as
\* that message has been dispatched, and with that message), on both sides.
C5_Resolved(ps, ps2, sent) ==
    \A r \in RecvIds :
        (ps[r].st = "pending" /\ ps2[r].st = "resolved" /\ ps[r].clean)
            => (ps2[r].by = "listener" /\ ps2[r].val = sent[ps[r].arr + ps[r].pos])

C5_Waiting(ps, list, arrived) ==
    \A i \in 1..Len(list) :
        (list[i] # StartupReceive /\ ps[list[i]].clean)
            => (ps[list[i]].pos >= i /\ Len(arrived) < ps[list[i]].arr + ps[list[i]].pos)

C5_ReceiversServedInOrder ==
    [][/\ C5_Resolved(promises, promises', SentToMain)
       /\ C5_Resolved(w_promises, w_promises', SentToWorker)
       /\ C5_Waiting(promises', pendingReceivers', Arrived')
       /\ C5_Waiting(w_promises', w_pendingReceivers', w_Arrived')]_vars

C5_Witness ==
    /\ promises[1].clean /\ promises[2].clean
    /\ promises[1].pos = 1 /\ promises[2].pos = 2
    /\ promises[1].arr = 0 /\ promises[2].arr = 0
    /\ promises[1].by = "listener" /\ promises[2].by = "listener"
    /\ promises[1].val = "a" /\ promises[2].val = "b"
    /\ hist.wSent = <<"a", "b">>

\* C6: messages that arrive while the endpoint has no pending receive() are
\* returned by successive poll() calls in the order sent, one per call, and
\* poll() returns undefined once the queue is exhausted, on both sides.
C6_PolledInOrder ==
    /\ OnlyPolls(hist.mOut)
         => Vals(hist.mOut) \o messageQueue \o toMain = SentToMain
    /\ (w_state = "running" /\ OnlyPolls(Tail(hist.wOut)))
         => Vals(hist.wOut) \o w_messageQueue \o toWorker = SentToWorker

C6_PollStep(q, q2) ==
    IF q = <<>> THEN ret'.val = Undefined /\ q2 = <<>>
    ELSE ret'.val = q[1] /\ q2 = SubSeq(q, 2, Len(q))

C6_PollReturnsOldest ==
    [][/\ C6_PolledInOrder'
       /\ poll => C6_PollStep(messageQueue, messageQueue')
       /\ w_poll => C6_PollStep(w_messageQueue, w_messageQueue')]_vars

C6_Witness ==
    /\ hist.wSent = <<"a", "b">>
    /\ hist.mOut = <<Handed(PollCall, "a"), Handed(PollCall, "b")>>
    /\ ret = Ret("main", "poll", Undefined)

\* C7: a receive(timeoutMs) whose timer fires before a message reaches it is
\* resolved with undefined and is no longer in pendingReceivers, so that no later
\* message is handed to it, on both sides.
C7_TimedOut(ps, ts, list, out) ==
    \A r \in RecvIds :
        ts[r] = "fired"
            => /\ ps[r].st = "resolved" /\ ps[r].by = "timer" /\ ps[r].val = Undefined
               /\ indexOf(list, r) = 0
               /\ \A i \in 1..Len(out) : out[i].to # r

C7_TimedOutReceiverIsRemoved ==
    /\ C7_TimedOut(promises, timers, pendingReceivers, hist.mOut)
    /\ C7_TimedOut(w_promises, w_timers, w_pendingReceivers, hist.wOut)

C7_Witness ==
    /\ timers[1] = "fired"
    /\ promises[1].pos = 1 /\ promises[2].pos = 2
    /\ promises[2].by = "listener"
    /\ hist.mOut = <<Handed(2, "a")>>

\* C8: while a subscribe handler is attached to the live event target, its
\* callback has run exactly once for each message dispatched since it was added,
\* in order, whether the message went to a pending receive(), to poll() or stayed
\* queued; and every dispatched message is still handed out or queued.
C8_Active(ss, w) == {s \in SubIds : ss[s].on /\ ss[s].w = w}

C8_SubscribersSeeEveryMessage ==
    /\ worker # Null =>
         /\ \A s \in C8_Active(subs, worker) :
                subs[s].log = SubSeq(Arrived, subs[s].from + 1, Len(Arrived))
         /\ Vals(hist.mOut) \o messageQueue = Arrived
    /\ w_state = "running" =>
         /\ \A s \in C8_Active(w_subs, Self) :
                w_subs[s].log = SubSeq(w_Arrived, w_subs[s].from + 1, Len(w_Arrived))
         /\ Vals(hist.wOut) \o w_messageQueue = w_Arrived

C8_Witness ==
    /\ worker # Null
    /\ subs[1].on /\ subs[1].w = worker /\ subs[1].from = 0
    /\ subs[1].log = <<"a", "b">>
    /\ \E r \in RecvIds : hist.mOut = <<Handed(r, "a"), Handed(PollCall, "b")>>
                          /\ promises[r].by = "listener"

\* C9 as stated: a receive() that was pending when stop() ran is never resolved
\* afterwards, whether or not it has a timer.
C9_DroppedNeverResolved ==
    [][\A r \in RecvIds : promises[r].dropped => promises'[r] = promises[r]]_vars

\* C9 as amended: a receive() without timeout that was pending when stop() ran is
\* never resolved; none that was pending is ever resolved with a message; one
\* whose timer was still armed is resolved with undefined when its timer fires.
C9_DroppedResolvedOnlyByTimer ==
    [][\A r \in RecvIds :
          promises[r].dropped =>
              /\ promises'[r].st = "resolved" => promises'[r].by = "timer"
                                                 /\ promises'[r].val = Undefined
              /\ timers[r] = "none" => promises'[r].st = "pending"
              /\ timeout(r) => promises'[r].st = "resolved"]_vars

C9_Witness ==
    /\ promises[1].dropped /\ promises[1].by = "timer"
    /\ promises[2].dropped /\ promises[2].st = "pending" /\ timers[2] = "none"
    /\ worker # Null

\* C10: a successful stop() terminates the worker context, nulls `worker` and
\* leaves messageQueue and pendingReceivers empty.
C10_StopClearsEverything ==
    ret = Ret("main", "stop", "void")
        => /\ worker = Null
           /\ w_state = "none"
           /\ messageQueue = <<>>
           /\ pendingReceivers = <<>>

C10_Witness ==
    /\ ret = Ret("main", "stop", "void")
    /\ \E r \in RecvIds : promises[r].dropped

\* C11: invoking the closure returned by subscribe() after stop() does not
\* raise: the call returns normally.
C11_UnsubscribeAfterStopReturns ==
    (Stopped /\ ret.side = "main" /\ ret.op = "unsubscribe") => ret.val = "void"

\* C12: the first message a spawned worker context receives is the
\* initialization payload of the start(data) that spawned it; the user logic
\* is invoked only after that message has arrived, with data equal to the
\* payload, and before any message is handled on the worker side.
C12_InitPayloadFirst ==
    (worker # Null /\ w_state \in {"init", "running"}) =>
        /\ hist.wIn \o toWorker # <<>>
        /\ Head(hist.wIn \o toWorker) = hist.inits[1]
        /\ w_state = "init" =>
              /\ hist.wIn = <<>> /\ hist.wOut = <<>> /\ hist.wSent = <<>>
              /\ w_data = Undefined
              /\ \A s \in SubIds : w_subs[s] = NoSub
              /\ \A r \in RecvIds : w_promises[r] = Unused
        /\ w_state = "running" =>
              /\ hist.wIn # <<>>
              /\ hist.wOut[1] = Handed(StartupReceive, hist.inits[1])
              /\ w_data = hist.inits[1]

C12_Witness ==
    /\ w_state = "running"
    /\ w_data = "d2"
    /\ hist.wIn = <<"d2", "a", "b">>

\* C13: the initialization payload is consumed exactly once, by the worker
\* context's start-up receive(): it is never returned by a later worker-side
\* poll() or receive(), never passed to a worker-side subscribe() callback,
\* and the start-up receive() consumes no other message.
C13_InitPayloadConsumedOnce ==
    w_state = "running" =>
        /\ hist.wOut # <<>>
        /\ Head(hist.wOut) = Handed(StartupReceive, hist.inits[1])
        /\ \A i \in 2..Len(hist.wOut) :
              /\ hist.wOut[i].to # StartupReceive
              /\ hist.wOut[i].val \notin Data
        /\ Vals(Tail(hist.wOut)) \o w_messageQueue = Tail(hist.wIn)
        /\ \A r \in RecvIds : w_promises[r].val \notin Data
        /\ \A s \in SubIds :
              \A i \in 1..Len(w_subs[s].log) : w_subs[s].log[i] \notin Data
        /\ (ret.side = "worker" /\ ret.op = "poll") => ret.val \notin Data

C13_Witness ==
    /\ w_state = "running"
    /\ ret = Ret("worker", "poll", "b")
    /\ w_promises[1].val = "a"
    /\ w_subs[1].log = <<"a", "b">>

\* C15: send() on the initiator side before start() is a silent no-op: it
\* raises nothing, posts no message, keeps nothing for delivery after a later
\* start() (the first start posts its payload and nothing else), and leaves
\* the worker handle, the queue and the pending-receiver list unchanged.
C15_SendBeforeStartIsNoOp ==
    [][/\ (Unstarted /\ sendCall) =>
             /\ ret'.val = "void"
             /\ UNCHANGED <<worker, spawned, messageQueue, pendingReceivers, promises,
                            subs, toWorker, toMain, workerVars, hist>>
       /\ \A d \in Data :
             (Unstarted /\ start(d)) => (toWorker' = <<d>> /\ hist'.mSent = <<>>)]_vars

C15_Witness ==
    /\ Unstarted
    /\ ret = Ret("main", "send", "void")
    /\ toWorker = <<>>

\* C19: on both endpoints, messageQueue and pendingReceivers are never both
\* non-empty.
C19_QueueOrPendingEmpty ==
    /\ messageQueue = <<>> \/ pendingReceivers = <<>>
    /\ w_messageQueue = <<>> \/ w_pendingReceivers = <<>>

C19_Witness ==
    /\ messageQueue # <<>>
    /\ promises[1].by = "listener"
    /\ promises[2].st = "unused"

\* C20: the firing of one pending receive call's timeout changes only that
\* receiver: the other pending receivers stay pending in the same relative
\* order (their promises and timers untouched), the message queue is
\* unchanged and the subscriptions are unchanged, on both endpoints.
C20_Frame(r, list, list2, ps, ps2, ts, ts2) ==
    /\ list2 = SelectSeq(list, LAMBDA x : x # r)
    /\ \A q \in RecvIds \ {r} : ps2[q] = ps[q] /\ ts2[q] = ts[q]

C20_TimeoutChangesOnlyItsReceiver ==
    [][\A r \in RecvIds :
         /\ timeout(r) =>
               /\ C20_Frame(r, pendingReceivers, pendingReceivers', promises, promises',
                            timers, timers')
               /\ UNCHANGED <<messageQueue, subs>>
         /\ w_timeout(r) =>
               /\ C20_Frame(r, w_pendingReceivers, w_pendingReceivers', w_promises,
                            w_promises', w_timers, w_timers')
               /\ UNCHANGED <<w_messageQueue, w_subs>>]_vars

C20_Witness ==
    /\ timers[1] = "fired"
    /\ promises[1].by = "timer" /\ promises[1].pos = 1
    /\ promises[2].st = "pending" /\ promises[2].pos = 2
    /\ pendingReceivers = <<2>>
    /\ subs[1].on

\* ---- two subscriptions per endpoint --------------------------------------
\* The endpoints with up to MaxSubMany subscriptions on the focus side and no
\* receive() or poll() call.
SubscribersNext ==
    \/ \E d \in Data : start(d)
    \/ \E m \in Payload : send(m)
    \/ subscribeWithin(MaxSubMany)
    \/ \E s \in SubIds : unsubscribe(s)
    \/ stop
    \/ listener
    \/ \E m \in Payload : w_send(m)
    \/ w_subscribeWithin(MaxSubMany)
    \/ \E s \in SubIds : w_unsubscribe(s)
    \/ w_listener

SpecSubscribers == Init /\ [][SubscribersNext]_vars

\* C16: once the unsubscribe action of a subscription has been invoked while
\* the channel is running, its callback is never invoked for a later message;
\* every other subscription of the endpoint that has not been unsubscribed
\* keeps receiving every message dispatched to the endpoint.
C16_Others(ss, w) == {s \in SubIds : ss[s].w = w /\ ~ss[s].unsub}

C16_UnsubscribedIsSilent ==
    [][/\ \A s \in SubIds :
             /\ subs[s].unsub => subs'[s].log = subs[s].log
             /\ (w_subs[s].unsub /\ w_state' = w_state) => w_subs'[s].log = w_subs[s].log
       /\ listener =>
             \A s \in C16_Others(subs, worker) :
                 subs'[s].log = Append(subs[s].log, Head(toMain))
       /\ w_listener =>
             \A s \in C16_Others(w_subs, Self) :
                 w_subs'[s].log = Append(w_subs[s].log, Head(toWorker))]_vars

C16_Witness ==
    /\ subs[1].unsub /\ subs[1].log = <<"a">>
    /\ ~subs[2].unsub /\ subs[2].log = <<"a", "b">>
    /\ subs[1].from = 0 /\ subs[2].from = 0

\* ---- falsy payloads --------------------------------------------------------
\* Values a peer can post besides the payloads above: undefined itself and the
\* number 0 (structured clone carries both).
FalsyPayload == {Undefined, "0"}

\* The endpoints exchanging falsy payloads: receive, poll and the timers, no
\* subscription and no stop.
FalsyNext ==
    \/ \E d \in Data : start(d)
    \/ \E m \in FalsyPayload : send(m)
    \/ \E t \in BOOLEAN : receive(t)
    \/ \E r \in RecvIds : timeout(r)
    \/ poll
    \/ listener
    \/ \E m \in FalsyPayload : w_send(m)
    \/ \E t \in BOOLEAN : w_receive(t)
    \/ \E r \in RecvIds : w_timeout(r)
    \/ w_poll
    \/ w_listener

SpecFalsy == Init /\ [][FalsyNext]_vars

\* C18: the no-value result of a timed-out receive or an empty poll differs
\* from every payload a peer can send: no message handed out by receive() or
\* poll(), on either side, has the value of the sentinel.
C18_SentinelIsNoPayload ==
    /\ \A i \in 1..Len(hist.mOut) : hist.mOut[i].val # Undefined
    /\ \A i \in 1..Len(hist.wOut) : hist.wOut[i].val # Undefined

\* ---- ping and pong ---------------------------------------------------------
\* The initiator runs start(data); send(ping) (up to MaxSend times); receive()
\* and the worker logic answers each ping it sees with a pong, either from a
\* subscribe callback (the Quick Start of the README) or from an awaited
\* receive().
Ping == "ping"
Pong == "pong"

PingInit == Constructed /\ focus = "both" /\ platform = "browser"

ping_start == Unstarted /\ \E d \in Data : start(d)

ping_send == worker # Null /\ send(Ping)

ping_receive == hist.mSent # <<>> /\ promises[1].st = "unused" /\ receive(FALSE)

\* The event that delivers the initialization payload, with a workerFn that
\* subscribes in its synchronous part: the listener resolves the start-up
\* receive(), and its then-callback runs workerFn before the next event.
ping_workerFnSubscribes ==
    /\ w_state = "init"
    /\ Len(toWorker) > 0
    /\ shift(w_pendingReceivers) = StartupReceive
    /\ LET msg == Head(toWorker) IN
       /\ toWorker' = Tail(toWorker)
       /\ w_pendingReceivers' = shifted(w_pendingReceivers)
       /\ w_data' = msg
       /\ w_state' = "running"
       /\ hist' = [hist EXCEPT !.wOut = Append(@, Handed(StartupReceive, msg)),
                               !.wIn = Append(@, msg)]
       /\ w_subs' = [dispatch(w_subs, Self, msg) EXCEPT ![NextSub(w_subs)] =
                        [w |-> Self, on |-> TRUE, log |-> <<>>,
                         from |-> Len(w_Arrived) + 1, unsub |-> FALSE]]
    /\ ret' = Ret("worker", "subscribe", "unsubscribe")
    /\ UNCHANGED <<mainVars, toMain, w_messageQueue, w_promises, w_timers>>

\* A workerFn that awaits receive() instead.
ping_workerFnReceives ==
    /\ \A s \in SubIds : w_subs[s] = NoSub
    /\ w_promises[1].st = "unused"
    /\ w_receive(FALSE)

\* The worker logic has seen a ping it has not answered yet.
ping_seen ==
    \/ \E s \in SubIds :
          Len(SelectSeq(w_subs[s].log, LAMBDA m : m = Ping)) > Len(hist.wSent)
    \/ w_promises[1].st = "resolved" /\ w_promises[1].val = Ping /\ hist.wSent = <<>>

ping_reply == ping_seen /\ w_send(Pong)

PingNext ==
    \/ ping_start
    \/ ping_send
    \/ ping_receive
    \/ listener
    \/ w_listener
    \/ ping_workerFnSubscribes
    \/ ping_workerFnReceives
    \/ ping_reply

\* Fair delivery of posted messages, and a worker logic that keeps running.
PingFairness ==
    /\ WF_vars(listener)
    /\ WF_vars(w_listener)
    /\ WF_vars(ping_workerFnReceives)
    /\ WF_vars(ping_reply)

SpecPing == PingInit /\ [][PingNext]_vars /\ PingFairness

\* C14: after start(data) followed by send(ping), with a worker logic that
\* answers each ping with a pong (from a subscribe callback or from an awaited
\* receive()), a receive() on the initiator eventually resolves with the pong,
\* provided posted messages are eventually delivered.
C14_PingGetsPong ==
    (promises[1].st # "unused")
        ~> (promises[1].st = "resolved" /\ promises[1].val = Pong)

C14_Witness ==
    /\ promises[1].st = "resolved" /\ promises[1].val = Pong
    /\ promises[1].by = "listener"
    /\ w_subs[1].log = <<Ping>>

\* ---- the registry of addWorker ---------------------------------------------
\* A source text is a string of UTF-16 code units: the letter a, e with an
\* acute accent, a high surrogate and a low surrogate.
MaxSrcLen == 2
MaxCalls == 3

CodeUnits == {97, 233, 55357, 56832}
Sources == UNION {[1..n -> CodeUnits] : n \in 1..MaxSrcLen}
Platform == {"browser", "node"}

IsHigh(u) == u \in 55296..56319
IsLow(u) == u \in 56320..57343

\* The code point of a surrogate pair.
CodePoint(hi, lo) == ((hi - 55296) * 1024) + (lo - 56320) + 65536

\* The UTF-8 bytes of a code point.
Utf8(cp) ==
    IF cp < 128 THEN <<cp>>
    ELSE IF cp < 2048 THEN <<192 + (cp \div 64), 128 + (cp % 64)>>
    ELSE IF cp < 65536
         THEN <<224 + (cp \div 4096), 128 + ((cp \div 64) % 64), 128 + (cp % 64)>>
         ELSE <<240 + (cp \div 262144), 128 + ((cp \div 4096) % 64),
                128 + ((cp \div 64) % 64), 128 + (cp % 64)>>

\* An upper-case hexadecimal digit, as a character.
Hex(n) == IF n < 10 THEN 48 + n ELSE 55 + n

\* %XX for each byte.
Escaped(bytes) ==
    [i \in 1..(3 * Len(bytes)) |->
        LET b == bytes[((i - 1) \div 3) + 1] IN
        CASE (i - 1) % 3 = 0 -> 37
          [] (i - 1) % 3 = 1 -> Hex(b \div 16)
          [] OTHER -> Hex(b % 16)]

\* The characters encodeURIComponent leaves alone: A-Z a-z 0-9 - _ . ! ~ * ' ( )
Unreserved(u) ==
    \/ u \in 65..90 \/ u \in 97..122 \/ u \in 48..57
    \/ u \in {45, 95, 46, 33, 126, 42, 39, 40, 41}

\* encodeURIComponent throws URIError on a lone surrogate.
LoneSurrogate(str) ==
    \E i \in 1..Len(str) :
        \/ IsLow(str[i]) /\ (i = 1 \/ ~IsHigh(str[i - 1]))
        \/ IsHigh(str[i]) /\ (i = Len(str) \/ ~IsLow(str[i + 1]))

RECURSIVE encodeURIComponent(_)
encodeURIComponent(str) ==
    IF str = <<>> THEN <<>>
    ELSE LET u == Head(str) IN
         IF Unreserved(u) THEN <<u>> \o encodeURIComponent(Tail(str))
         ELSE IF IsHigh(u) /\ Len(str) > 1 /\ IsLow(str[2])
              THEN Escaped(Utf8(CodePoint(u, str[2])))
                       \o encodeURIComponent(Tail(Tail(str)))
              ELSE Escaped(Utf8(u)) \o encodeURIComponent(Tail(str))

\* The i-th character of the base64 alphabet, and the padding character.
Base64Char(i) ==
    IF i < 26 THEN 65 + i
    ELSE IF i < 52 THEN 97 + (i - 26)
    ELSE IF i < 62 THEN 48 + (i - 52)
    ELSE IF i = 62 THEN 43 ELSE 47

Base64Pad == 61

\* Base64 of a byte string: btoa of a binary string, Buffer.toString('base64').
Base64(bytes) ==
    LET n == Len(bytes)
        at(k) == IF k <= n THEN bytes[k] ELSE 0
    IN [i \in 1..(4 * ((n + 2) \div 3)) |->
           LET q == (i - 1) \div 4
               b1 == at(3 * q + 1)
               b2 == at(3 * q + 2)
               b3 == at(3 * q + 3)
           IN CASE (i - 1) % 4 = 0 -> Base64Char(b1 \div 4)
                [] (i - 1) % 4 = 1 -> Base64Char(((b1 % 4) * 16) + (b2 \div 16))
                [] (i - 1) % 4 = 2 -> IF 3 * q + 2 > n THEN Base64Pad
                                      ELSE Base64Char(((b2 % 16) * 4) + (b3 \div 64))
                [] OTHER -> IF 3 * q + 3 > n THEN Base64Pad
                            ELSE Base64Char(b3 % 64)]

btoa(str) == Base64(str)

\* Buffer.from(string): the UTF-8 bytes, U+FFFD for each lone surrogate.
RECURSIVE BufferFrom(_)
BufferFrom(str) ==
    IF str = <<>> THEN <<>>
    ELSE LET u == Head(str) IN
         IF IsHigh(u) /\ Len(str) > 1 /\ IsLow(str[2])
         THEN Utf8(CodePoint(u, str[2])) \o BufferFrom(Tail(Tail(str)))
         ELSE IF IsHigh(u) \/ IsLow(u)
              THEN Utf8(65533) \o BufferFrom(Tail(str))
              ELSE Utf8(u) \o BufferFrom(Tail(str))

\* globalKey: the primary encoder, and the one of the catch block.
primaryKey(src) == [prefix |-> "__WebWorker_", base64 |-> btoa(encodeURIComponent(src))]
fallbackKey(src) == [prefix |-> "__WebWorker_", base64 |-> Base64(BufferFrom(src))]

\* `if (globalThis[globalKey])`.  (neverRegistered: a lookup that always misses.)
neverRegistered(key) == FALSE

registered(key) == key \in DOMAIN globalThis

\* The channel pairs constructed so far.
Made == {calls[i].api : i \in {j \in 1..Len(calls) : calls[j].made}}

\* addWorker(workerCallback) for a callback whose toString() is src.  A call
\* that throws returns nothing (api is Null).
addWorker(src) ==
    /\ Len(calls) < MaxCalls
    /\ IF LoneSurrogate(src) /\ platform = "browser"
       THEN /\ calls' = Append(calls, [src |-> src, key |-> <<>>, api |-> Null,
                                       made |-> FALSE])
            /\ ret' = Ret("main", "addWorker", "ReferenceError")
            /\ UNCHANGED globalThis
       ELSE LET key == IF LoneSurrogate(src) THEN fallbackKey(src) ELSE primaryKey(src) IN
            /\ IF registered(key)
               THEN /\ calls' = Append(calls, [src |-> src, key |-> key,
                                               api |-> globalThis[key], made |-> FALSE])
                    /\ UNCHANGED globalThis
               ELSE /\ calls' = Append(calls, [src |-> src, key |-> key,
                                               api |-> Cardinality(Made) + 1,
                                               made |-> TRUE])
                    /\ globalThis' = [k \in DOMAIN globalThis \cup {key} |->
                                         IF k = key THEN Cardinality(Made) + 1
                                         ELSE globalThis[k]]
            /\ ret' = Ret("main", "addWorker", "api")
    /\ UNCHANGED <<focus, platform, worker, spawned, urlRevoked, messageQueue,
                   pendingReceivers, promises, timers, subs, toWorker, toMain,
                   workerVars, hist>>

RegistryInit == Constructed /\ focus = "main" /\ platform \in Platform

RegistryNext == \E src \in Sources : addWorker(src)

SpecRegistry == RegistryInit /\ [][RegistryNext]_vars

\* C17: any two addWorker calls whose worker logic has the same source text
\* return the identical channel pair, and the factory path runs at most once
\* per fingerprint.
C17_MemoizedBySource ==
    \A i, j \in 1..Len(calls) :
        /\ (calls[i].src = calls[j].src /\ calls[i].api # Null /\ calls[j].api # Null)
              => calls[i].api = calls[j].api
        /\ (i # j /\ calls[i].made /\ calls[j].made) => calls[i].key # calls[j].key

C17_Witness ==
    /\ Len(calls) = 3
    /\ calls[1].src = <<55357, 56832>> /\ calls[1].made
    /\ calls[2].src = <<233>> /\ calls[2].made /\ calls[2].api # calls[1].api
    /\ calls[3].src = calls[1].src /\ ~calls[3].made /\ calls[3].api = calls[1].api

\* C21: when the primary encoder fails on the source text, addWorker takes
\* the key of the alternate encoder, and when that one fails too the call
\* still returns a channel pair: no addWorker call throws.
C21_EncodingFailureNeverSurfaced ==
    \A i \in 1..Len(calls) :
        /\ calls[i].api # Null
        /\ LoneSurrogate(calls[i].src) => calls[i].key = fallbackKey(calls[i].src)

\* C22: on one endpoint between start and stop, whatever the interleaving of
\* receive(), receive(timeoutMs), poll(), timeouts and arrivals: the messages
\* handed out, followed by those still queued, are exactly the messages that
\* arrived, in arrival order (none handed out twice, none skipped); a receive
\* call is handed at most one message, holds exactly that message, and a
\* receive call whose timer fired is handed none.
C22_HandedOnce(out, queue, arrived, ps, ts) ==
    /\ Vals(out) \o queue = arrived
    /\ \A i, j \in 1..Len(out) :
          (i # j /\ out[i].to = out[j].to) => out[i].to = PollCall
    /\ \A i \in 1..Len(out) :
          out[i].to \in RecvIds =>
              /\ ps[out[i].to].st = "resolved"
              /\ ps[out[i].to].by \in {"queue", "listener"}
              /\ ps[out[i].to].val = out[i].val
              /\ ts[out[i].to] # "fired"

C22_EachMessageHandedOnceInOrder ==
    /\ worker # Null =>
          C22_HandedOnce(hist.mOut, messageQueue, Arrived, promises, timers)
    /\ w_state = "running" =>
          C22_HandedOnce(hist.wOut, w_messageQueue, w_Arrived, w_promises, w_timers)

C22_Witness ==
    /\ worker # Null
    /\ timers[1] = "fired" /\ timers[2] = "cleared"
    /\ hist.mOut = <<Handed(2, "b"), Handed(PollCall, "a")>>
    /\ messageQueue = <<>>

\* ---- timers that fire ------------------------------------------------------
\* The endpoints with every armed timer eventually firing: setTimeout
\* callbacks run once their delay has elapsed, unless cleared or unless the
\* context that armed them is gone.
TimerFairness ==
    \A r \in RecvIds : WF_vars(timeout(r)) /\ WF_vars(w_timeout(r))

\* The calls the receivers interleave with: no subscription.
TimersNext ==
    \/ \E d \in Data : start(d)
    \/ \E m \in Payload : send(m)
    \/ \E t \in BOOLEAN : receive(t)
    \/ \E r \in RecvIds : timeout(r)
    \/ poll
    \/ stop
    \/ listener
    \/ \E m \in Payload : w_send(m)
    \/ \E t \in BOOLEAN : w_receive(t)
    \/ \E r \in RecvIds : w_timeout(r)
    \/ w_poll
    \/ w_stop
    \/ w_listener

SpecTimers == Init /\ [][TimersNext]_vars /\ TimerFairness

\* C23 as stated: every receive(timeoutMs) with a numeric timeout, on either
\* side, eventually resolves, whatever calls are interleaved with it.
C23_TimedReceiveResolves ==
    \A r \in RecvIds :
        /\ (promises[r].st = "pending" /\ timers[r] = "armed")
               ~> (promises[r].st = "resolved")
        /\ (w_promises[r].st = "pending" /\ w_timers[r] = "armed")
               ~> (w_promises[r].st = "resolved")

\* C23, amended: every initiator-side receive(timeoutMs) eventually resolves,
\* across stop() too; a worker-side one eventually resolves unless its
\* context is terminated or closed first.
C23_TimedReceiveResolvesWhileContextLives ==
    \A r \in RecvIds :
        /\ (promises[r].st = "pending" /\ timers[r] = "armed")
               ~> (promises[r].st = "resolved")
        /\ (w_promises[r].st = "pending" /\ w_timers[r] = "armed")
               ~> (w_promises[r].st = "resolved" \/ w_state # "running")

C23_Witness ==
    /\ Stopped
    /\ promises[1].dropped /\ promises[1].by = "timer" /\ timers[1] = "fired"
    /\ promises[2].dropped /\ promises[2].st = "pending" /\ timers[2] = "none"

====
